---- MODULE Spec2Model ----
(***************************************************************************)
(* Model of the helixirapi client core: the generic response unmarshaller  *)
(* (models/unmarshal.py, models/definitions.py), the time-range chunker    *)
(* (HelixirApi._handle_candle_response / _handle_response), the parameter  *)
(* validators and the symbol lookup in the cached asset table.             *)
(*                                                                         *)
(* Python values are records tagged by their Python type in field t.       *)
(* Strings that the code takes apart (response type tags, endpoint URLs)   *)
(* are sequences of tokens, so that "in", split and slicing are computed.  *)
(* Floats are held in tenths (15 is 1.5).                                  *)
(***************************************************************************)
EXTENDS Integers, Sequences, FiniteSets, TLC

RECURSIVE unmarshal_json(_, _)
RECURSIVE Definition_unmarshal_json(_, _)
RECURSIVE Definition_unmarshal_json_object(_, _)
RECURSIVE SplitOn(_, _)
RECURSIVE SetAttrs(_, _, _)

(***************************************************************************)
(* Python values                                                           *)
(***************************************************************************)
None == [t |-> "NoneType"]
PyBool(b) == [t |-> "bool", v |-> b]
PyInt(n) == [t |-> "int", v |-> n]
PyFloat(tenths) == [t |-> "float", v |-> tenths]
PyStr(s) == [t |-> "str", v |-> s]
PyList(items) == [t |-> "list", v |-> items]
PyDict(pairs) == [t |-> "dict", v |-> pairs]
PyDatetime(ts) == [t |-> "datetime", v |-> ts]
Entity(cls, attrs) == [t |-> "Definition", cls |-> cls, attrs |-> attrs]
Raise(e) == [t |-> "raise", v |-> e]

IsRaise(x) == x.t = "raise"
IsList(x) == x.t = "list"
IsDict(x) == x.t = "dict"
\* isinstance(x, int) is true of bool too: bool is a subclass of int
IsNumber(x) == x.t \in {"int", "float", "bool"}

\* dict / __dict__ contents are sequences of <<key, value>> in insertion order
Keys(pairs) == {pairs[i][1] : i \in 1..Len(pairs)}
HasKey(pairs, k) == \E i \in 1..Len(pairs) : pairs[i][1] = k
Lookup(pairs, k) == pairs[CHOOSE i \in 1..Len(pairs) : pairs[i][1] = k][2]
SetItem(pairs, k, val) ==
    IF HasKey(pairs, k)
    THEN [i \in 1..Len(pairs) |-> IF pairs[i][1] = k THEN <<k, val>> ELSE pairs[i]]
    ELSE Append(pairs, <<k, val>>)

(***************************************************************************)
(* Scalar constructors: int(), float(), str(), isoparse()                  *)
(***************************************************************************)
\* the decimal literals of the model's strings, value in units
IntLiteral == ("0" :> 0) @@ ("1" :> 1) @@ ("2" :> 2) @@ ("7" :> 7) @@ ("56" :> 56)
\* the float literals of the model's strings, value in tenths
FloatLiteral == ("0" :> 0) @@ ("1" :> 10) @@ ("2" :> 20) @@ ("7" :> 70)
                @@ ("56" :> 560) @@ ("1.5" :> 15) @@ ("2.5" :> 25)
\* the ISO-8601 strings of the model, value in epoch seconds
IsoLiteral == ("2021-04-12T13:45:00+02:00" :> 1618227900)
              @@ ("2021-04-12T14:45:00+02:00" :> 1618231500)

Trunc(tenths) == IF tenths >= 0 THEN tenths \div 10 ELSE -((-tenths) \div 10)

py_int(x) ==
    CASE x.t = "int" -> x
      [] x.t = "bool" -> PyInt(IF x.v THEN 1 ELSE 0)
      [] x.t = "float" -> PyInt(Trunc(x.v))
      [] x.t = "str" -> IF x.v \in DOMAIN IntLiteral
                        THEN PyInt(IntLiteral[x.v]) ELSE Raise("ValueError")
      [] OTHER -> Raise("TypeError")

py_float(x) ==
    CASE x.t = "float" -> x
      [] x.t = "int" -> PyFloat(x.v * 10)
      [] x.t = "bool" -> PyFloat(IF x.v THEN 10 ELSE 0)
      [] x.t = "str" -> IF x.v \in DOMAIN FloatLiteral
                        THEN PyFloat(FloatLiteral[x.v]) ELSE Raise("ValueError")
      [] OTHER -> Raise("TypeError")

\* str() never fails; the text of a number is its literal, of anything that is
\* not a number or a string a repr the model does not take apart
py_str(x) ==
    CASE x.t = "str" -> x
      [] x.t = "int" -> IF \E s \in DOMAIN IntLiteral : IntLiteral[s] = x.v
                        THEN PyStr(CHOOSE s \in DOMAIN IntLiteral : IntLiteral[s] = x.v)
                        ELSE PyStr("<int>")
      [] x.t = "float" -> IF \E s \in {"1.5", "2.5"} : FloatLiteral[s] = x.v
                          THEN PyStr(CHOOSE s \in {"1.5", "2.5"} : FloatLiteral[s] = x.v)
                          ELSE PyStr("<float>")
      [] x.t = "bool" -> PyStr(IF x.v THEN "True" ELSE "False")
      [] x.t = "NoneType" -> PyStr("None")
      [] OTHER -> PyStr("<repr>")

isoparse(x) ==
    CASE x.t = "str" -> IF x.v \in DOMAIN IsoLiteral
                        THEN PyDatetime(IsoLiteral[x.v]) ELSE Raise("ValueError")
      [] OTHER -> Raise("TypeError")

(***************************************************************************)
(* Entity descriptors (the Definition subclasses)                          *)
(***************************************************************************)
TInt == [kind |-> "builtin", name |-> "int"]
TFloat == [kind |-> "builtin", name |-> "float"]
TStr == [kind |-> "builtin", name |-> "str"]
TIsoparse == [kind |-> "function", name |-> "isoparse"]
TClass(n) == [kind |-> "class", name |-> n]
TList(n) == [kind |-> "List", name |-> n]

\* a class whose every field is primitive: fields is <<name, type>> in
\* declaration order, the wire name and the local name being the same
Flat(fields) ==
    [api_name_to_python |-> [i \in 1..Len(fields) |-> <<fields[i][1], fields[i][1]>>],
     attribute_is_primitive |-> [i \in 1..Len(fields) |-> <<fields[i][1], TRUE>>],
     attributes_to_types |-> fields]

PoolBalance ==
    Flat(<< <<"balance", TFloat>>, <<"pending_reward", TFloat>>,
            <<"pending_reward_price", TFloat>>, <<"price", TFloat>>,
            <<"reward_token", TStr>>, <<"token", TStr>>, <<"token_address", TStr>> >>)

WhitelistedAddress == Flat(<< <<"address", TStr>>, <<"id", TInt>> >>)

Tag == Flat(<< <<"id", TInt>>, <<"tag", TStr>> >>)

ActiveAddressesResponse == Flat(<< <<"count", TInt>>, <<"time", TIsoparse>> >>)

WalletMoveResponse ==
    Flat(<< <<"amount", TFloat>>, <<"time", TIsoparse>>, <<"token", TStr>> >>)

TokenPriceResponse ==
    Flat(<< <<"close", TFloat>>, <<"high", TFloat>>, <<"low", TFloat>>,
            <<"open", TFloat>>, <<"time", TIsoparse>> >>)

FarmPortfolio ==
    [api_name_to_python |->
        << <<"farm_icon", "farm_icon">>, <<"farm_name", "farm_name">>,
           <<"farm_true_name", "farm_true_name">>, <<"pools_balance", "pools_balance">> >>,
     attribute_is_primitive |->
        << <<"farm_icon", TRUE>>, <<"farm_name", TRUE>>,
           <<"farm_true_name", TRUE>>, <<"pools_balance", FALSE>> >>,
     attributes_to_types |->
        << <<"farm_icon", TStr>>, <<"farm_name", TStr>>,
           <<"farm_true_name", TStr>>, <<"pools_balance", TList("PoolBalance")>> >>]

Balance ==
    [api_name_to_python |->
        << <<"createdAt", "createdAt">>, <<"portfolio", "portfolio">>,
           <<"wallet", "wallet">>, <<"walletID", "walletID">> >>,
     attribute_is_primitive |->
        << <<"createdAt", TRUE>>, <<"portfolio", TRUE>>,
           <<"wallet", FALSE>>, <<"walletID", TRUE>> >>,
     attributes_to_types |->
        << <<"createdAt", TStr>>, <<"portfolio", TStr>>,
           <<"wallet", TClass("WhitelistedAddress")>>, <<"walletID", TInt>> >>]

FarmsPortfolioResponse ==
    [api_name_to_python |->
        << <<"lp_pools", "lp_pools">>, <<"optimizer_lp_pools", "optimizer_lp_pools">>,
           <<"optimizer_single_asset_pools", "optimizer_single_asset_pools">>,
           <<"single_asset_pools", "single_asset_pools">> >>,
     attribute_is_primitive |->
        << <<"lp_pools", FALSE>>, <<"optimizer_lp_pools", FALSE>>,
           <<"optimizer_single_asset_pools", FALSE>>, <<"single_asset_pools", FALSE>> >>,
     attributes_to_types |->
        << <<"lp_pools", TList("FarmPortfolio")>>,
           <<"optimizer_lp_pools", TList("FarmPortfolio")>>,
           <<"optimizer_single_asset_pools", TList("FarmPortfolio")>>,
           <<"single_asset_pools", TList("FarmPortfolio")>> >>]

\* models.name_to_class, restricted to the classes above: one class of every
\* shape the registry holds (flat, nested entity, list field, list first field)
name_to_class ==
    << <<"PoolBalance", PoolBalance>>, <<"WhitelistedAddress", WhitelistedAddress>>,
       <<"Tag", Tag>>, <<"ActiveAddressesResponse", ActiveAddressesResponse>>,
       <<"WalletMoveResponse", WalletMoveResponse>>,
       <<"TokenPriceResponse", TokenPriceResponse>>,
       <<"FarmPortfolio", FarmPortfolio>>, <<"Balance", Balance>>,
       <<"FarmsPortfolioResponse", FarmsPortfolioResponse>> >>

\* a Definition subclass outside the registry, with the tables the base class
\* declares filled in part: raw is flagged primitive and blob is not, and
\* neither has an entry in _attributes_to_types. No class of definitions.py is
\* of this shape; it is an input of the direct calls of _unmarshal_json_object.
LooseRecord ==
    [api_name_to_python |-> << <<"id", "id">>, <<"raw", "raw">>, <<"blob", "blob">> >>,
     attribute_is_primitive |-> << <<"id", TRUE>>, <<"raw", TRUE>>, <<"blob", FALSE>> >>,
     attributes_to_types |-> << <<"id", TInt>> >>]

\* the Definition subclasses: those of the registry and the one above
subclasses == Append(name_to_class, <<"LooseRecord", LooseRecord>>)

\* unmarshal.name_to_class: the scalar constructors
scalar_name_to_class == {"int", "float", "str"}

\* keyword.iskeyword, on the keys the model's payloads use
iskeyword(key) == key \in {"from", "class", "in", "is", "not", "pass", "global"}

(***************************************************************************)
(* Strings as token sequences: "List[Tag]" is <<"List", "[", "Tag", "]">>, *)
(* "Dict[str, Tag]" is <<"Dict", "[", "str", ", ", "Tag", "]">>            *)
(***************************************************************************)
\* sub in s
Contains(s, sub) ==
    \E i \in 1..(Len(s) - Len(sub) + 1) : SubSeq(s, i, i + Len(sub) - 1) = sub

\* s.split(sep): the parts of s between the occurrences of the token sep
SplitOn(s, sep) ==
    IF \E i \in 1..Len(s) : s[i] = sep
    THEN LET i == CHOOSE j \in 1..Len(s) : s[j] = sep /\ \A k \in 1..(j - 1) : s[k] # sep
         IN <<SubSeq(s, 1, i - 1)>> \o SplitOn(SubSeq(s, i + 1, Len(s)), sep)
    ELSE <<s>>

\* s[:-1]: s without its last character; a longer last token loses a character
\* and is no name any table holds
DropLastChar(s) ==
    IF s = <<>> THEN <<>>
    ELSE IF Len(s[Len(s)]) = 1 THEN SubSeq(s, 1, Len(s) - 1)
    ELSE Append(SubSeq(s, 1, Len(s) - 1), "<chopped>")

\* f"List[{name}]"
ListTag(name) == <<"List", "[", name, "]">>
DictTag(name) == <<"Dict", "[", "str", ", ", name, "]">>

\* models.name_to_class[key]() for a key that is a whole string
IsRegistered(key) == Len(key) = 1 /\ HasKey(name_to_class, key[1])
Descriptor(cls) == Lookup(subclasses, cls)
NewObject(key) == Entity(key[1], <<>>)

(***************************************************************************)
(* The unmarshaller                                                        *)
(***************************************************************************)
\* name_to_class[response_type](resp_json) of unmarshal.py
ScalarCall(name, x) ==
    CASE name = "int" -> py_int(x)
      [] name = "float" -> py_float(x)
      [] OTHER -> py_str(x)

\* _attributes_to_types[attribute_name](value)
TypeCall(type, x) ==
    CASE type.kind = "builtin" -> ScalarCall(type.name, x)
      [] type.kind = "function" -> isoparse(x)
      [] OTHER -> Raise("TypeError")

\* list_type.split("[")[1][:-1], list_type being an entry of _attributes_to_types:
\* a typing alias, a class or a function has no split; str.split("[") is ["["]
TypeSplitItem(type) ==
    IF type.kind = "builtin" /\ type.name = "str"
    THEN Raise("IndexError") ELSE Raise("AttributeError")

\* the first exception among the results rs, as a loop that stops at the first
\* raise ends with; otherwise the value made of all of them
FirstRaiseOr(rs, value) ==
    IF \E k \in 1..Len(rs) : IsRaise(rs[k])
    THEN rs[CHOOSE k \in 1..Len(rs) :
                IsRaise(rs[k]) /\ \A j \in 1..(k - 1) : ~IsRaise(rs[j])]
    ELSE value

\* ListOrRaise appending every new item at the front of items
ListOrRaise_reversed(items) ==
    FirstRaiseOr(items, PyList([k \in 1..Len(items) |-> items[Len(items) + 1 - k]]))

ListOrRaise(items) == FirstRaiseOr(items, PyList(items))

\* Definition._unmarshal_json_list: every item hydrated by a new object of the
\* class known_type names, in order
Definition_unmarshal_json_list(input_json, known_type) ==
    IF input_json.v = <<>> THEN PyList(<<>>)
    ELSE IF ~IsRegistered(known_type) THEN Raise("KeyError")
    ELSE ListOrRaise([k \in 1..Len(input_json.v) |->
             Definition_unmarshal_json_object(NewObject(known_type), input_json.v[k])])

\* model().unmarshal_json(value): the value the call returns
ReturnOf(call) == IF IsRaise(call) THEN call ELSE call.ret

\* NestedValue leaving the wire value as it came
NestedValue_raw(model, value) == value

\* lines 56-61: the value of a non-primitive field of declared type model
NestedValue(model, value) ==
    IF model.kind = "List"
    THEN unmarshal_json(ListTag(model.name), value)
    ELSE IF model.kind = "class"
    THEN ReturnOf(Definition_unmarshal_json(Entity(model.name, <<>>), value))
    ELSE Raise("AttributeError")

\* the value Definition._unmarshal_json_object stores for one key
ObjectValue(desc, key, value) ==
    IF HasKey(desc.api_name_to_python, key)
    THEN IF ~HasKey(desc.attribute_is_primitive, Lookup(desc.api_name_to_python, key))
         THEN Raise("KeyError")
         ELSE IF ~Lookup(desc.attribute_is_primitive, Lookup(desc.api_name_to_python, key))
         THEN IF HasKey(desc.attributes_to_types, Lookup(desc.api_name_to_python, key))
              THEN NestedValue(Lookup(desc.attributes_to_types,
                                      Lookup(desc.api_name_to_python, key)), value)
              ELSE value
         ELSE IF HasKey(desc.attributes_to_types, Lookup(desc.api_name_to_python, key))
              THEN TypeCall(Lookup(desc.attributes_to_types,
                                   Lookup(desc.api_name_to_python, key)), value)
              ELSE Raise("KeyError")
    ELSE value

\* the attribute name Definition._unmarshal_json_object stores a key under
ObjectAttribute(desc, key) ==
    IF HasKey(desc.api_name_to_python, key)
    THEN Lookup(desc.api_name_to_python, key)
    ELSE key \o (IF iskeyword(key) THEN "_" ELSE "")

\* self.__setattr__ for pairs[i], pairs[i+1], ... in turn
SetAttrs(attrs, pairs, i) ==
    IF i > Len(pairs) THEN attrs
    ELSE SetAttrs(SetItem(attrs, pairs[i][1], pairs[i][2]), pairs, i + 1)

SelfOrRaise(self, names, values) ==
    FirstRaiseOr(values,
        Entity(self.cls, SetAttrs(self.attrs,
                                  [k \in 1..Len(names) |-> <<names[k], values[k]>>], 1)))

\* Definition._unmarshal_json_object: self after every key of input_json
Definition_unmarshal_json_object(self, input_json) ==
    IF ~IsDict(input_json) THEN Raise("AttributeError")
    ELSE SelfOrRaise(self,
             [k \in 1..Len(input_json.v) |->
                 ObjectAttribute(Descriptor(self.cls), input_json.v[k][1])],
             [k \in 1..Len(input_json.v) |->
                 ObjectValue(Descriptor(self.cls), input_json.v[k][1], input_json.v[k][2])])

\* Definition.to_dict: the __dict__ of the object
to_dict(self) == self.attrs

\* the end of a Definition.unmarshal_json call that changed self: ret is the
\* value returned, self the object after the call
Returned(ret, self) == [t |-> "call", ret |-> ret, self |-> self]
ReturnSelf(after) == IF IsRaise(after) THEN after ELSE Returned(after, after)

\* lines 26-34: the first declared attribute receives the list
SetListAttribute(self, list_attribute_name, list_items) ==
    IF IsRaise(list_items) THEN list_items
    ELSE ReturnSelf(Entity(self.cls, SetItem(self.attrs, list_attribute_name, list_items)))

ListItems(known_type, input_json) ==
    IF IsRaise(known_type) THEN known_type
    ELSE Definition_unmarshal_json_list(input_json, known_type)

Definition_unmarshal_json(self, input_json) ==
    IF IsList(input_json)
    THEN IF Descriptor(self.cls).api_name_to_python = <<>> THEN Raise("IndexError")
         ELSE SetListAttribute(self, Descriptor(self.cls).api_name_to_python[1][2],
                  IF HasKey(Descriptor(self.cls).attributes_to_types,
                            Descriptor(self.cls).api_name_to_python[1][2])
                  THEN ListItems(TypeSplitItem(
                           Lookup(Descriptor(self.cls).attributes_to_types,
                                  Descriptor(self.cls).api_name_to_python[1][2])),
                           input_json)
                  ELSE input_json)
    ELSE IF IsDict(input_json)
    THEN ReturnSelf(Definition_unmarshal_json_object(self, input_json))
    ELSE IF IsNumber(input_json)
    THEN Returned(input_json, self)
    ELSE Returned(None, self)

\* DictOrRaise keeping the values of resp_json as they came
DictOrRaise_raw(resp_json, values) == FirstRaiseOr(values, resp_json)

\* {k: unmarshal_json(known_type, v) for k, v in resp_json.items()}
DictOrRaise(resp_json, values) ==
    FirstRaiseOr(values,
        PyDict([k \in 1..Len(values) |-> <<resp_json.v[k][1], values[k]>>]))

\* obj.unmarshal_json(resp_json); return obj
ObjOf(call) == IF IsRaise(call) THEN call ELSE call.self

unmarshal_json(response_type, resp_json) ==
    IF Len(response_type) = 1 /\ response_type[1] \in scalar_name_to_class
    THEN ScalarCall(response_type[1], resp_json)
    ELSE IF IsList(resp_json)
    THEN Definition_unmarshal_json_list(
             resp_json,
             IF Contains(response_type, <<"List", "[">>)
             THEN DropLastChar(SplitOn(response_type, "[")[2])
             ELSE response_type)
    ELSE IF Contains(response_type, <<"Dict", "[">>)
    THEN IF Len(SplitOn(response_type, ", ")) < 2 THEN Raise("IndexError")
         ELSE IF ~IsDict(resp_json) THEN Raise("AttributeError")
         ELSE DictOrRaise(resp_json,
                  [k \in 1..Len(resp_json.v) |->
                      unmarshal_json(DropLastChar(SplitOn(response_type, ", ")[2]),
                                     resp_json.v[k][2])])
    ELSE IF ~IsRegistered(response_type) THEN Raise("KeyError")
    ELSE ObjOf(Definition_unmarshal_json(NewObject(response_type), resp_json))

(***************************************************************************)
(* Decoded JSON payloads the model draws its inputs from                   *)
(***************************************************************************)
\* longest JSON array drawn as an input
MaxLen == 2

SeqsUpTo(S, n) == UNION {[1..k -> S] : k \in 0..n}

TagA == PyDict(<< <<"id", PyInt(1)>>, <<"tag", PyStr("x")>> >>)
TagB == PyDict(<< <<"tag", PyInt(2)>>, <<"id", PyStr("7")>> >>)
TagExtra == PyDict(<< <<"id", PyInt(2)>>, <<"from", PyInt(56)>>, <<"note", PyStr("n")>> >>)
TagBad == PyDict(<< <<"id", PyStr("x")>> >>)
TagClash == PyDict(<< <<"id", PyInt(2)>>, <<"from", PyInt(56)>>, <<"from_", PyInt(7)>> >>)
WAddr == PyDict(<< <<"address", PyStr("0xabc")>>, <<"id", PyInt(1)>> >>)
BalanceObj == PyDict(<< <<"createdAt", PyStr("c")>>, <<"wallet", WAddr>>,
                        <<"walletID", PyInt(7)>> >>)
BalanceStrWallet == PyDict(<< <<"wallet", PyStr("0xabc")>> >>)
BalanceNumWallet == PyDict(<< <<"wallet", PyInt(7)>>, <<"walletID", PyFloat(15)>> >>)
BalanceListWallet == PyDict(<< <<"wallet", PyList(<<WAddr>>)>> >>)
PoolBalA == PyDict(<< <<"balance", PyStr("1.5")>>, <<"token", PyStr("t")>> >>)
PoolBalB == PyDict(<< <<"balance", PyInt(2)>>, <<"price", PyFloat(25)>> >>)
FarmPfA == PyDict(<< <<"farm_name", PyStr("f")>>,
                     <<"pools_balance", PyList(<<PoolBalA, PoolBalB>>)>> >>)
FarmPfEmpty == PyDict(<< <<"pools_balance", PyList(<<>>)>>, <<"farm_icon", None>> >>)
FarmPfObjPools == PyDict(<< <<"pools_balance", PoolBalA>> >>)
FarmsRespA == PyDict(<< <<"lp_pools", PyList(<<FarmPfA>>)>>,
                        <<"single_asset_pools", PyList(<<>>)>> >>)

LooseRaw == PyDict(<< <<"id", PyStr("7")>>, <<"raw", PyStr("x")>> >>)
LooseBlob == PyDict(<< <<"id", PyInt(1)>>, <<"blob", PyStr("x")>> >>)

WireObjects ==
    {LooseRaw, LooseBlob, TagA, TagB, TagExtra, TagBad, TagClash, WAddr, BalanceObj, BalanceStrWallet,
     BalanceNumWallet, BalanceListWallet, PoolBalA, PoolBalB, FarmPfA, FarmPfEmpty,
     FarmPfObjPools, FarmsRespA, PyDict(<<>>)}

WireScalars ==
    {None, PyStr(""), PyStr("7"), PyStr("x"), PyStr("1.5"), PyInt(7), PyFloat(15),
     PyBool(TRUE)}

WireArrays ==
    {PyList(a) : a \in SeqsUpTo({TagA, TagB, TagExtra}, MaxLen)}
    \cup {PyList(a) : a \in SeqsUpTo({FarmPfA, FarmPfEmpty}, MaxLen)}
    \cup {PyList(<<TagA, TagBad>>), PyList(<<PyInt(7)>>), PyList(<<TagA, None>>)}

WireDicts ==
    {PyDict(<< <<"a", TagA>>, <<"b", TagB>> >>), PyDict(<< <<"b", TagExtra>> >>),
     PyDict(<< <<"a", TagA>>, <<"b", TagBad>> >>),
     PyDict(<< <<"a", PyList(<<TagA, TagB>>)>> >>),
     PyDict(<< <<"a", PyStr("1.5")>>, <<"b", PyInt(2)>> >>)}

Payloads == WireObjects \cup WireScalars \cup WireArrays \cup WireDicts

ResponseTypes ==
    {<<"int">>, <<"float">>, <<"str">>, <<"Tag">>, <<"Balance">>, <<"PoolBalance">>,
     <<"WhitelistedAddress">>, <<"FarmPortfolio">>, <<"FarmsPortfolioResponse">>,
     <<"Unknown">>, ListTag("Tag"), ListTag("FarmPortfolio"), ListTag("Unknown"),
     DictTag("Tag"), DictTag("float"), DictTag("Unknown")}

(***************************************************************************)
(* The chunker's tables and helpers (class HelixirApi)                     *)
(***************************************************************************)
DATA_EPOCH == 1618227900
CANDLE_LIMIT == 5000

candle_seconds ==
    ("M1" :> 1*60) @@ ("M5" :> 5*60) @@ ("M10" :> 10*60) @@ ("M15" :> 15*60)
    @@ ("M30" :> 30*60) @@ ("H1" :> 60*60) @@ ("H4" :> 4*60*60)
    @@ ("H12" :> 12*60*60) @@ ("D1" :> 24*60*60)

candle_limits ==
    ("M1" :> 1*60 * 60*24 * 7) @@ ("M5" :> 5*60 * 12*24 * 7)
    @@ ("M10" :> 10*60 * 6*24 * 7) @@ ("M15" :> 15*60 * 4*24 * 10)
    @@ ("M30" :> 30*60 * 2*24 * 10) @@ ("H1" :> 60*60 * 24 * 14)
    @@ ("H4" :> 4*60*60 * 6 * 20) @@ ("H12" :> 12*60*60 * 2 * 20)
    @@ ("D1" :> 24*60*60 * 30)

strict_candle_limits ==
    ("M1" :> 1*60 * 60*24 * 1) @@ ("M5" :> 5*60 * 12*24 * 1)
    @@ ("M10" :> 10*60 * 6*24 * 1) @@ ("M15" :> 15*60 * 4*24 * 2)
    @@ ("M30" :> 30*60 * 2*24 * 2) @@ ("H1" :> 60*60 * 24 * 2)
    @@ ("H4" :> 4*60*60 * 6 * 7) @@ ("H12" :> 12*60*60 * 2 * 7)
    @@ ("D1" :> 24*60*60 * 30)

\* str.upper() on the resolution codes the model draws
upper(r) == CASE r = "h1" -> "H1" [] r = "m1" -> "M1" [] OTHER -> r

Min(a, b) == IF a < b THEN a ELSE b

\* SpanTable with the endpoint tag ignored: the strict table for every endpoint
SpanTable_always_strict(endpoint) == strict_candle_limits

\* SpanTable with the endpoint tag ignored: the relaxed table for every endpoint
SpanTable_always_relaxed(endpoint) == candle_limits

\* lines 140-143: the span table of the endpoint
SpanTable(endpoint) ==
    IF Contains(endpoint, <<"active_addresses">>) \/ Contains(endpoint, <<"moves">>)
    THEN strict_candle_limits
    ELSE candle_limits

\* ResolveStep without the cap of CANDLE_LIMIT candles
ResolveStep_uncapped(endpoint, resolution) ==
    IF resolution \notin DOMAIN SpanTable(endpoint) THEN Raise("KeyError")
    ELSE IF resolution \notin DOMAIN candle_seconds THEN Raise("KeyError")
    ELSE PyInt(SpanTable(endpoint)[resolution])

\* lines 140-144: the step, or the KeyError of a resolution no table holds
ResolveStep(endpoint, resolution) ==
    IF resolution \notin DOMAIN SpanTable(endpoint) THEN Raise("KeyError")
    ELSE IF resolution \notin DOMAIN candle_seconds THEN Raise("KeyError")
    ELSE PyInt(Min(SpanTable(endpoint)[resolution],
                   candle_seconds[resolution] * CANDLE_LIMIT))

\* lines 147-148: the test made when split_request is off. delta / seconds is a
\* true division; for a positive divisor delta / s > L is delta > L * s
IntervalTooLong(from, to, resolution, step) ==
    LET delta == from - to
    IN delta > CANDLE_LIMIT * candle_seconds[resolution] \/ delta > step

\* SubWindowTo without the clip to original_to
SubWindowTo_unclipped(i, step, original_to) == i + step

\* line 159: the end of the sub-window that starts at i
SubWindowTo(i, step, original_to) == Min(i + step, original_to)

\* ListIAdd putting the new items in front of the accumulated ones
ListIAdd_prepend(result, x) ==
    IF x.t = "list" THEN PyList(x.v \o result.v) ELSE Raise("TypeError")

\* result += x for a list result
ListIAdd(result, x) ==
    CASE x.t = "list" -> PyList(result.v \o x.v)
      [] x.t = "str" -> PyList(result.v \o [k \in 1..Len(x.v) |-> PyStr("<char>")])
      [] x.t = "dict" -> PyList(result.v \o [k \in 1..Len(x.v) |-> PyStr(x.v[k][1])])
      [] OTHER -> Raise("TypeError")

\* what the HTTP session did with one request: a RequestException, with or
\* without a decoded error body, or a decoded JSON value
HttpError(has_body) == [kind |-> "error", has_body |-> has_body]
HttpOk(data) == [kind |-> "ok", data |-> data]

IsEmptyData(data) == (data.t = "str" /\ data.v = "") \/ data.t = "NoneType"

\* _handle_response from the session's answer on: the value returned or raised
handle_response(response_type, http) ==
    IF http.kind = "error"
    THEN IF http.has_body THEN Raise("Exception") ELSE Raise("SystemExit")
    ELSE IF IsEmptyData(http.data) THEN http.data
    ELSE IF response_type = <<>> THEN http.data
    ELSE unmarshal_json(response_type, http.data)

(***************************************************************************)
(* Inputs of the chunker                                                   *)
(***************************************************************************)
\* most sub-windows a drawn request needs
MaxChunks == 3
\* longest array one sub-request answers with
MaxItems == 2

TwentyDays == 20 * 24*60*60

CandleEndpoints ==
    {[url |-> <<"56", "/", "tokens", "/", "0xabc", "/", "candles">>,
      response_type |-> ListTag("TokenPriceResponse")],
     [url |-> <<"56", "/", "tokens", "/", "0xabc", "/", "active_addresses">>,
      response_type |-> ListTag("ActiveAddressesResponse")],
     [url |-> <<"56", "/", "wallets", "/", "0xabc", "/", "moves">>,
      response_type |-> ListTag("WalletMoveResponse")]}

ResolutionInputs ==
    {"M1", "M5", "M10", "M15", "M30", "H1", "H4", "H12", "D1", "W1", "MN1", "h1"}

\* the unit the drawn times are spaced by: the step of the call
Unit(endpoint, resolution) ==
    IF IsRaise(ResolveStep(endpoint, upper(resolution))) THEN 3600
    ELSE ResolveStep(endpoint, upper(resolution)).v

Offsets(u) ==
    {0, 1, u, u + 1, MaxChunks * u}
    \cup (IF TwentyDays <= MaxChunks * u THEN {TwentyDays} ELSE {})

\* the 20-day span of an hourly candle request, whatever the step
Scenario(url, res) ==
    IF upper(res) = "H1" /\ Contains(url, <<"candles">>) THEN {TwentyDays} ELSE {}

FromInputs(u) == {None} \cup {PyInt(DATA_EPOCH + d) : d \in {0, 1, MaxChunks * u}}
ToInputs(url, res) ==
    {None} \cup {PyInt(DATA_EPOCH + d) : d \in Offsets(Unit(url, res)) \cup Scenario(url, res)}
NowInputs(url, res) ==
    {DATA_EPOCH + Unit(url, res) + 1, DATA_EPOCH + MaxChunks * Unit(url, res)}
    \cup {DATA_EPOCH + d : d \in Scenario(url, res)}

Iso1 == "2021-04-12T13:45:00+02:00"
Iso2 == "2021-04-12T14:45:00+02:00"

\* two wire objects of the entity a candle endpoint answers with
CandleObject(response_type, k) ==
    LET time == <<"time", PyStr(IF k = 1 THEN Iso2 ELSE Iso1)>>
    IN CASE response_type = ListTag("TokenPriceResponse") ->
              PyDict(<< <<"close", IF k = 1 THEN PyStr("1.5") ELSE PyInt(2)>>, time >>)
         [] response_type = ListTag("ActiveAddressesResponse") ->
              PyDict(<< <<"count", IF k = 1 THEN PyInt(1) ELSE PyStr("2")>>, time >>)
         [] OTHER ->
              PyDict(<< <<"amount", IF k = 1 THEN PyFloat(15) ELSE PyInt(2)>>, time,
                        <<"token", PyStr("t")>> >>)

CandleArray(response_type, n) ==
    PyList([k \in 1..n |-> CandleObject(response_type, 1 + (k % 2))])

HttpOutcomes(response_type) ==
    {HttpError(TRUE), HttpError(FALSE), HttpOk(None), HttpOk(PyStr(""))}
    \cup {HttpOk(CandleArray(response_type, n)) : n \in 0..MaxItems}
    \cup {HttpOk(PyList(<<PyDict(<< <<"time", PyStr("x")>> >>)>>))}

(***************************************************************************)
(* The parameter validators (class HelixirApi)                             *)
(***************************************************************************)
PyTuple(items) == [t |-> "tuple", v |-> items]

\* bool(x) of the values the validators test with "if x:" / "if not x:"
Truthy(x) ==
    CASE x.t = "NoneType" -> FALSE
      [] x.t \in {"int", "float"} -> x.v # 0
      [] x.t = "bool" -> x.v
      [] x.t \in {"str", "list", "dict", "tuple"} -> x.v # <<>> /\ x.v # ""
      [] OTHER -> TRUE

\* a == b of Python: numbers compare by value across int, float and bool
InTenths(x) ==
    CASE x.t = "int" -> x.v * 10
      [] x.t = "bool" -> IF x.v THEN 10 ELSE 0
      [] OTHER -> x.v
py_eq(a, b) == IF IsNumber(a) /\ IsNumber(b) THEN InTenths(a) = InTenths(b) ELSE a = b

CHAIN_SUPPORTED_VALUES ==
    << PyInt(56), PyInt(1), PyInt(137), PyInt(43114), PyInt(250),
       PyStr("BSC"), PyStr("ETH"), PyStr("POLYGON"), PyStr("AVAX"), PyStr("FTM"),
       PyStr("bsc"), PyStr("eth"), PyStr("polygon"), PyStr("avax"), PyStr("ftm"),
       PyStr("56"), PyStr("1"), PyStr("137"), PyStr("43114"), PyStr("250") >>
CHAINS_NUMBER == 5
LIMIT_LIMITS == <<1, 500>>

\* an int too wide for the checker's integers is <<hi, lo>>, standing for
\* hi * 10^9 + lo with 0 <= lo < 10^9
Big(hi, lo) == [t |-> "int", v |-> <<hi, lo>>]
BigLess(a, b) == a[1] < b[1] \/ (a[1] = b[1] /\ a[2] < b[2])
\* (1, 922337203685477581)
PAGE_LIMITS == << <<0, 1>>, <<922337203, 685477581>> >>

AGAINSTS == {None, PyStr("USD"), PyStr("PEG")}
SORT_SUPPORTED_COLUMNS ==
    {"market_cap", "liquidity_usd", "name", "symbol", "total_supply",
     "circulating_supply", "price_stable", "price_peg", "time", "created_at"}

ChainError == Raise("ValueError: The chain parameter must match the supported values.")
TooEarlyError == Raise("ValueError: Sorry, data are available only from DATA_EPOCH. Please select a later date.")
OrderError == Raise("ValueError: The to parameter must be greater than the parameter from_.")
LimitError == Raise("ValueError: The limit must be greater than 0 and less than or equal to 100.")
PageLowError == Raise("ValueError: The page must be greater than 0.")
PageHighError == Raise("ValueError: We are sorry, but we are unable to process your page number. It is too big.")
SortError == Raise("ValueError: The sort parameter must match the supported values.")
UnpackError == Raise("ValueError: too many values to unpack (expected 2)")
AgainstError == Raise("ValueError: Wrong value of parameter against.")
ResolutionError == Raise("ValueError: The resolution must be one of the allowed values.")
ContractError == Raise("Exception: Wrong contract format.")
NoSymbolError == Raise("ValueError: Either the symbol or the contract has to be specified.")

\* list.index(x) of CHAIN_SUPPORTED_VALUES, counted from 0
ChainIndex(chain) ==
    (CHOOSE k \in 1..Len(CHAIN_SUPPORTED_VALUES) :
        /\ py_eq(CHAIN_SUPPORTED_VALUES[k], chain)
        /\ \A j \in 1..(k - 1) : ~py_eq(CHAIN_SUPPORTED_VALUES[j], chain)) - 1

\* validate_chain returning the member of the band the input sits in
validate_chain_identity(chain) ==
    IF ~\E k \in 1..Len(CHAIN_SUPPORTED_VALUES) : py_eq(CHAIN_SUPPORTED_VALUES[k], chain)
    THEN ChainError
    ELSE CHAIN_SUPPORTED_VALUES[ChainIndex(chain) + 1]

\* validate_chain taking the member after the one at index mod CHAINS_NUMBER
validate_chain_off_by_one(chain) ==
    IF ~\E k \in 1..Len(CHAIN_SUPPORTED_VALUES) : py_eq(CHAIN_SUPPORTED_VALUES[k], chain)
    THEN ChainError
    ELSE CHAIN_SUPPORTED_VALUES[(ChainIndex(chain) % CHAINS_NUMBER) + 2]

validate_chain(chain) ==
    IF ~\E k \in 1..Len(CHAIN_SUPPORTED_VALUES) : py_eq(CHAIN_SUPPORTED_VALUES[k], chain)
    THEN ChainError
    ELSE CHAIN_SUPPORTED_VALUES[(ChainIndex(chain) % CHAINS_NUMBER) + 1]

\* _validate_date: the date as epoch seconds (the warning of an early date is
\* no state)
validate_date(date) ==
    CASE date.t = "NoneType" -> date
      [] date.t \in {"int", "bool"} -> date
      [] date.t = "str" -> IF IsRaise(isoparse(date)) THEN isoparse(date)
                           ELSE PyInt(isoparse(date).v)
      [] OTHER -> Raise("ValueError")

\* a validated date as a number: an int, or a bool (0 or 1)
Seconds(date) == IF date.t = "bool" THEN (IF date.v THEN 1 ELSE 0) ELSE date.v

\* CheckFromTo letting to = from_ pass
CheckFromTo_equal_allowed(from_, to) ==
    IF Truthy(to) /\ Seconds(to) < DATA_EPOCH THEN TooEarlyError
    ELSE IF Truthy(to) /\ Truthy(from_) /\ Seconds(to) < Seconds(from_) THEN OrderError
    ELSE PyTuple(<<from_, to>>)

\* lines 272-277 of _validate_from__to, on the two validated dates
CheckFromTo(from_, to) ==
    IF Truthy(to) /\ Seconds(to) < DATA_EPOCH THEN TooEarlyError
    ELSE IF Truthy(to) /\ Truthy(from_) /\ Seconds(to) <= Seconds(from_) THEN OrderError
    ELSE PyTuple(<<from_, to>>)

validate_from__to(from_, to) ==
    IF IsRaise(validate_date(from_)) THEN validate_date(from_)
    ELSE IF IsRaise(validate_date(to)) THEN validate_date(to)
    ELSE CheckFromTo(validate_date(from_), validate_date(to))

validate_resolution(resolution) ==
    IF resolution \in {"M1", "M5", "M10", "M15", "M30", "H1", "H4", "H12", "D1", "W1", "MN1"}
    THEN None ELSE ResolutionError

validate_limit(limit) ==
    IF ~Truthy(limit) THEN None
    ELSE IF limit.v < LIMIT_LIMITS[1] \/ limit.v > LIMIT_LIMITS[2] THEN LimitError
    ELSE None

\* page is None or a Big int
validate_page(page) ==
    IF page = None \/ page.v = <<0, 0>> THEN None
    ELSE IF BigLess(page.v, PAGE_LIMITS[1]) THEN PageLowError
    ELSE IF BigLess(PAGE_LIMITS[2], page.v) THEN PageHighError
    ELSE None

\* str.lower() on the words the sort inputs are made of
lower(s) ==
    [k \in 1..Len(s) |->
        CASE s[k] = "NAME" -> "name" [] s[k] = "ASC" -> "asc" [] OTHER -> s[k]]

\* the first character of a word and the rest of it
FirstChar(w) ==
    CASE w = "name" -> "n" [] w = "asc" -> "a" [] w = "desc" -> "d"
      [] w = "time" -> "t" [] w = "price_usd" -> "p" [] w = "up" -> "u" [] OTHER -> w
RestOfWord(w) ==
    CASE w = "name" -> <<"ame">> [] w = "asc" -> <<"sc">> [] w = "desc" -> <<"esc">>
      [] w = "time" -> <<"ime">> [] w = "price_usd" -> <<"rice_usd">>
      [] w = "up" -> <<"p">> [] OTHER -> <<>>

\* lines 313-316: col and order are strings, here sequences of words
CheckSort(col, order, columns) ==
    IF /\ Len(col) = 1 /\ col[1] \in SORT_SUPPORTED_COLUMNS /\ col[1] \in columns
       /\ Len(order) = 1 /\ order[1] \in {"+", "-", "asc", "desc"}
    THEN None ELSE SortError

\* sort is None or a string, a sequence of words and of the characters ".", "+", "-"
validate_sort(sort, columns) ==
    IF sort = None \/ sort.v = <<>> THEN None
    ELSE IF Contains(lower(sort.v), <<".">>)
    THEN IF Len(SplitOn(lower(sort.v), ".")) # 2 THEN UnpackError
         ELSE CheckSort(SplitOn(lower(sort.v), ".")[1], SplitOn(lower(sort.v), ".")[2], columns)
    ELSE CheckSort(RestOfWord(lower(sort.v)[1]) \o Tail(lower(sort.v)),
                   <<FirstChar(lower(sort.v)[1])>>, columns)

\* contract is a string in words, the prefix "0x" being one word
validate_contract(contract) ==
    IF \/ contract.v = <<>>
       \/ (Len(contract.v) = 1 /\ Len(contract.v[1]) < 3)
       \/ contract.v[1] # "0x"
       \/ \E k \in 1..Len(contract.v) : contract.v[k] = " "
    THEN ContractError ELSE None

validate_against(against) == IF against \in AGAINSTS THEN None ELSE AgainstError

(***************************************************************************)
(* The asset table and the symbol lookup                                   *)
(***************************************************************************)
\* pd.DataFrame(rows): rows are [symbol, chain, contract]
PyFrame(rows) == [t |-> "DataFrame", v |-> rows]

UnknownSymbolError == Raise("Exception: Sorry, the entered symbol is unknown.")
MultipleContractsError == Raise("Exception: Sorry, multiple contracts belong to the symbol on the specified chain.")
ChainNeededError == Raise("Exception: The chain has to be specified if the symbol is available on multiple of them!")

\* what a call did besides returning: ret is the value returned or raised,
\* assets_list the client's table after it, http the requests it issued
Outcome(ret, assets, http) == [ret |-> ret, assets_list |-> assets, http |-> http]

RowsWhere(rows, field, val) == {k \in 1..Len(rows) : py_eq(rows[k][field], val)}

\* lines 218-233 of _symbol_to_contract, on a filled table
LookupContract(rows, symbol, chain) ==
    IF rows = <<>> THEN Raise("KeyError")
    ELSE IF RowsWhere(rows, "symbol", symbol) = {} THEN UnknownSymbolError
    ELSE IF Cardinality(RowsWhere(rows, "symbol", symbol)) = 1
    THEN rows[CHOOSE k \in RowsWhere(rows, "symbol", symbol) : TRUE].contract
    ELSE IF chain # None
            /\ \E k \in RowsWhere(rows, "symbol", symbol) : py_eq(rows[k].chain, chain)
    THEN IF Cardinality(RowsWhere(rows, "chain", chain)) = 1
         THEN rows[CHOOSE k \in RowsWhere(rows, "chain", chain) : TRUE].contract
         ELSE MultipleContractsError
    ELSE ChainNeededError

\* _fill_assets: the GET of "assets" and the table made of its answer
fill_assets(assets, fetch) ==
    IF IsRaise(handle_response(<<>>, fetch))
    THEN Outcome(handle_response(<<>>, fetch), assets, << <<"assets">> >>)
    ELSE IF handle_response(<<>>, fetch) = None
    THEN Outcome(None, PyFrame(<<>>), << <<"assets">> >>)
    ELSE Outcome(None, PyFrame(handle_response(<<>>, fetch).v), << <<"assets">> >>)

\* the rest of _symbol_to_contract after the table was looked at or filled
LookupAfter(filled, symbol, chain) ==
    IF IsRaise(filled.ret) THEN filled
    ELSE [filled EXCEPT !.ret = LookupContract(filled.assets_list.v, symbol, chain)]

\* symbol_to_contract filling the table at every call
symbol_to_contract_refetch(assets, symbol, chain, fetch) ==
    LookupAfter(fill_assets(assets, fetch), symbol, chain)

symbol_to_contract(assets, symbol, chain, fetch) ==
    LookupAfter(IF assets = None THEN fill_assets(assets, fetch) ELSE Outcome(None, assets, <<>>),
                symbol, chain)

\* lines 243-248: the branch of a call without contract
ContractFromSymbol(assets, symbol, chain, fetch) ==
    IF IsRaise(chain) THEN Outcome(chain, assets, <<>>)
    ELSE symbol_to_contract(assets, symbol, chain, fetch)

validate_symbol_contract_chain(assets, symbol, contract, chain, fetch) ==
    IF contract = None
    THEN IF symbol = None THEN Outcome(NoSymbolError, assets, <<>>)
         ELSE ContractFromSymbol(assets, symbol,
                                 IF chain # None THEN validate_chain(chain) ELSE None, fetch)
    ELSE IF IsRaise(validate_contract(contract))
    THEN Outcome(validate_contract(contract), assets, <<>>)
    ELSE Outcome(contract, assets, <<>>)

\* the first exception of the checks made in turn, or value
FirstError(checks, value) == FirstRaiseOr(checks, value)

\* lines 329-332: what follows the contract's validation
CandleParamsAfter(vc, against, from_, to, resolution) ==
    IF IsRaise(vc.ret) THEN vc
    ELSE [vc EXCEPT !.ret =
            FirstError(<<validate_against(against), validate_from__to(from_, to),
                         validate_resolution(resolution)>>,
                       PyTuple(<<vc.ret>> \o validate_from__to(from_, to).v))]

validate_symbol_contract_against_from__to_resolution_chain(assets, symbol, contract, against, from_, to, resolution, chain, fetch) ==
    IF IsRaise(validate_chain(chain)) THEN Outcome(validate_chain(chain), assets, <<>>)
    ELSE CandleParamsAfter(
             validate_symbol_contract_chain(assets, symbol, contract,
                                            validate_chain(chain), fetch),
             against, from_, to, resolution)

\* lines 878-880 of get_price
PriceParams(validate_params, assets, symbol, contract, chain, against, fetch) ==
    IF ~validate_params THEN Outcome(contract, assets, <<>>)
    ELSE LET vc == validate_symbol_contract_chain(assets, symbol, contract, chain, fetch)
         IN IF IsRaise(vc.ret) THEN vc
            ELSE IF IsRaise(validate_against(against))
            THEN [vc EXCEPT !.ret = validate_against(against)]
            ELSE vc

\* lines 882-886 of get_price: the request to f"{chain}/tokens/{contract}/price"
\* and what _handle_response makes of it
PriceRequest(vp, chain, http) ==
    IF IsRaise(vp.ret) THEN vp
    ELSE Outcome(handle_response(<<"float">>, http), vp.assets_list,
                 Append(vp.http, <<py_str(chain).v, "/", "tokens", "/">>
                                 \o (IF vp.ret = None THEN <<"None">> ELSE vp.ret.v)
                                 \o <<"/", "price">>))

get_price(assets, symbol, contract, chain, against, validate_params, fetch, http) ==
    PriceRequest(PriceParams(validate_params, assets, symbol, contract, chain, against, fetch),
                 chain, http)

(***************************************************************************)
(* Inputs of the validators                                                *)
(***************************************************************************)
ChainInputs ==
    {CHAIN_SUPPORTED_VALUES[k] : k \in 1..Len(CHAIN_SUPPORTED_VALUES)}
    \cup {PyInt(999999), PyInt(0), PyStr("Bsc"), PyStr("0"), None, PyBool(TRUE), PyFloat(560)}

DateInputs ==
    {None, PyInt(0), PyInt(-5), PyInt(50), PyInt(100), PyInt(DATA_EPOCH - 1),
     PyInt(DATA_EPOCH), PyInt(DATA_EPOCH + 1), PyInt(DATA_EPOCH + 5),
     PyStr(Iso1), PyStr(Iso2), PyStr("x")}

LimitInputs ==
    {None, PyInt(-1), PyInt(0), PyInt(1), PyInt(2), PyInt(499), PyInt(500), PyInt(501)}

PageInputs ==
    {None, Big(-1, 999999999), Big(0, 0), Big(0, 1), Big(0, 2),
     Big(922337203, 685477580), Big(922337203, 685477581),
     Big(922337203, 685477582), Big(922337204, 0)}

SortWords == {"name", "time", "price_usd", "NAME", "asc", "desc", "ASC", "up", ".", "+", "-"}
\* longest sort string, in words
MaxSortLen == 3
SortInputs == {None} \cup {PyStr(w) : w \in SeqsUpTo(SortWords, MaxSortLen)}
ColumnInputs == {{"name", "price_usd", "chain"}, {"time", "amount_0"}}

AssetRows ==
    << [symbol |-> PyStr("CAKE"), chain |-> PyInt(56), contract |-> PyStr(<<"0x", "cake">>)],
       [symbol |-> PyStr("USDT"), chain |-> PyInt(56), contract |-> PyStr(<<"0x", "usdt56">>)],
       [symbol |-> PyStr("USDT"), chain |-> PyInt(1), contract |-> PyStr(<<"0x", "usdt1">>)] >>
\* a table listing one symbol twice on one chain
AssetRowsTwice ==
    << [symbol |-> PyStr("CAKE"), chain |-> PyInt(56), contract |-> PyStr(<<"0x", "cake">>)],
       [symbol |-> PyStr("CAKE"), chain |-> PyInt(56), contract |-> PyStr(<<"0x", "cake2">>)],
       [symbol |-> PyStr("USDT"), chain |-> PyInt(1), contract |-> PyStr(<<"0x", "usdt1">>)] >>
SymbolInputs == {None, PyStr("CAKE"), PyStr("USDT"), PyStr("NOPE")}
ContractInputs == {None, PyStr(<<"0x", "abc">>), PyStr(<<"abc">>), PyStr(<<"0x", " ", "a">>)}
AgainstInputs == {None, PyStr("USD"), PyStr("EUR")}
AssetFetches ==
    {HttpError(FALSE), HttpOk(None), HttpOk(PyList(AssetRows)), HttpOk(PyList(AssetRowsTwice))}
\* most GET assets requests of one client
MaxAssetRequests == 2
PriceAnswers == {HttpError(TRUE), HttpOk(None), HttpOk(PyFloat(15)), HttpOk(PyStr("1.5"))}

(***************************************************************************)
(* State                                                                   *)
(***************************************************************************)
VARIABLES
    pc,             \* where the modelled call stands
    split_request,  \* HelixirApi.split_request
    endpoint,       \* the endpoint of the _handle_candle_response call
    response_type,  \* its response_type
    params,         \* its params: resolution, from, to
    asked,          \* the from and to the caller passed in params
    now,            \* time.time() of the call, in whole seconds
    step,           \* the local step
    original_to,    \* the local original_to
    i,              \* the loop variable
    result,         \* the local result
    requests,       \* the <<from, to>> of every _handle_response call, in order
    responses,      \* what each of those calls returned or raised
    warned,         \* number of "Desired data are empty." warnings
    returned,       \* the value the call returned
    error,          \* the exception the call ended with
    u_type,         \* unmarshal_json's response_type
    u_json,         \* unmarshal_json's resp_json
    u_result,       \* what unmarshal_json returned or raised
    assets_list,    \* HelixirApi.assets_list
    http_log,       \* the requests the last validator or endpoint call issued
    v_call,         \* that call: its name and its arguments
    v_result,       \* what it returned or raised
    asset_requests  \* number of GET assets requests the client has issued

cvars == <<split_request, endpoint, response_type, params, asked, now, step, original_to, i,
           result, requests, responses, warned, returned, error>>
uvars == <<u_type, u_json, u_result>>
vvars == <<assets_list, http_log, v_call, v_result, asset_requests>>
vars == <<pc, cvars, uvars, vvars>>

NoValue == [t |-> "pending"]
NoError == "none"

\* the chunker's variables before any call
ChunkerIdle ==
    /\ endpoint = <<>>
    /\ response_type = <<>>
    /\ params = [resolution |-> "", from |-> None, to |-> None]
    /\ asked = [from |-> None, to |-> None]
    /\ now = 0
    /\ step = 0
    /\ original_to = 0
    /\ i = 0
    /\ result = PyList(<<>>)
    /\ requests = <<>>
    /\ responses = <<>>
    /\ warned = 0
    /\ returned = NoValue
    /\ error = NoError

UnmarshalIdle ==
    /\ u_type = <<>>
    /\ u_json = None
    /\ u_result = NoValue

NoCall == [op |-> "none", args |-> <<>>]

\* the validators' variables of a constructed client before any call
ValidateIdle ==
    /\ assets_list = None
    /\ http_log = <<>>
    /\ v_call = NoCall
    /\ v_result = NoValue
    /\ asset_requests = 0

(***************************************************************************)
(* SpecUnmarshal: one call of unmarshal_json, or of _unmarshal_json_object *)
(* on a new object, on a drawn type tag / payload                          *)
(***************************************************************************)
InitUnmarshal ==
    /\ pc = "unmarshal"
    /\ u_type \in ResponseTypes \cup {<<"LooseRecord">>}
    /\ u_json \in Payloads
    /\ u_result = NoValue
    /\ split_request = TRUE
    /\ ChunkerIdle
    /\ ValidateIdle

Unmarshal ==
    /\ pc = "unmarshal"
    /\ u_type \in ResponseTypes
    /\ u_result' = unmarshal_json(u_type, u_json)
    /\ pc' = "unmarshalled"
    /\ UNCHANGED <<u_type, u_json, cvars, vvars>>

\* a direct call of _unmarshal_json_object on a new object of a subclass, as
\* _unmarshal_json_list makes for every item
UnmarshalObject ==
    /\ pc = "unmarshal"
    /\ Len(u_type) = 1 /\ HasKey(subclasses, u_type[1])
    /\ u_result' = Definition_unmarshal_json_object(NewObject(u_type), u_json)
    /\ pc' = "hydrated"
    /\ UNCHANGED <<u_type, u_json, cvars, vvars>>

NextUnmarshal == Unmarshal \/ UnmarshalObject

SpecUnmarshal == InitUnmarshal /\ [][NextUnmarshal]_vars

(***************************************************************************)
(* SpecValidate: the validator and endpoint calls of a constructed client  *)
(***************************************************************************)
InitValidate ==
    /\ pc = "client"
    /\ split_request = TRUE
    /\ ChunkerIdle
    /\ UnmarshalIdle
    /\ ValidateIdle

\* a call that touches neither the asset table nor the network; the model
\* follows the client up to the return of one such call
Pure(op, args, ret) ==
    /\ v_call' = [op |-> op, args |-> args]
    /\ v_result' = ret
    /\ http_log' = <<>>
    /\ pc' = "returned"
    /\ UNCHANGED <<assets_list, asset_requests, cvars, uvars>>

\* the GET assets requests among the requests http
AssetRequestsIn(http) == Cardinality({k \in 1..Len(http) : http[k] = <<"assets">>})

\* what a call that may fill the asset table and issue requests leaves behind
Leaves(op, args, out) ==
    /\ asset_requests + AssetRequestsIn(out.http) <= MaxAssetRequests
    /\ v_call' = [op |-> op, args |-> args]
    /\ v_result' = out.ret
    /\ http_log' = out.http
    /\ assets_list' = out.assets_list
    /\ asset_requests' = asset_requests + AssetRequestsIn(out.http)
    /\ UNCHANGED <<cvars, uvars>>

\* such a call, the model following the client up to its return
Effect(op, args, out) == Leaves(op, args, out) /\ pc' = "returned"

\* an earlier call of the client that needed the asset table and found none
FillAssets ==
    /\ pc = "client"
    /\ assets_list = None
    /\ \E fetch \in AssetFetches : Leaves("_fill_assets", <<>>, fill_assets(assets_list, fetch))
    /\ UNCHANGED pc

ValidateChain ==
    /\ pc = "client"
    /\ \E chain \in ChainInputs : Pure("_validate_chain", <<chain>>, validate_chain(chain))

\* lines 326 and 247: the chain the combined validator normalized is
\* normalized again by _validate_symbol_contract_chain
ValidateChainAgain ==
    /\ pc = "returned"
    /\ v_call.op = "_validate_chain"
    /\ ~IsRaise(v_result)
    /\ v_call' = [op |-> "_validate_chain", args |-> <<v_result>>]
    /\ v_result' = validate_chain(v_result)
    /\ http_log' = <<>>
    /\ pc' = "renormalized"
    /\ UNCHANGED <<assets_list, asset_requests, cvars, uvars>>

ValidateFromTo ==
    /\ pc = "client"
    /\ \E from_ \in DateInputs, to \in DateInputs :
           Pure("_validate_from__to", <<from_, to>>, validate_from__to(from_, to))

ValidateLimit ==
    /\ pc = "client"
    /\ \E limit \in LimitInputs : Pure("_validate_limit", <<limit>>, validate_limit(limit))

ValidatePage ==
    /\ pc = "client"
    /\ \E page \in PageInputs : Pure("_validate_page", <<page>>, validate_page(page))

ValidateSort ==
    /\ pc = "client"
    /\ \E sort \in SortInputs, columns \in ColumnInputs :
           Pure("_validate_sort", <<sort, columns>>, validate_sort(sort, columns))

ValidateCandleParams ==
    /\ pc = "client"
    /\ \E symbol \in SymbolInputs, contract \in ContractInputs, against \in AgainstInputs,
          from_ \in {None, PyInt(DATA_EPOCH)}, to \in {None, PyInt(DATA_EPOCH - 1)},
          resolution \in {"H1", "h2"}, chain \in {PyStr("bsc"), PyInt(1), PyInt(999999)},
          fetch \in AssetFetches :
           Effect("_validate_symbol_contract_against_from__to_resolution_chain",
                  <<symbol, contract, against, from_, to, resolution, chain>>,
                  validate_symbol_contract_against_from__to_resolution_chain(
                      assets_list, symbol, contract, against, from_, to, resolution, chain,
                      fetch))

\* one symbol resolution of a sequence of them on the client
SymbolToContract ==
    /\ pc \in {"client", "resolved"}
    /\ \E symbol \in SymbolInputs \ {None}, chain \in {None, PyInt(56), PyInt(1), PyInt(137)},
          fetch \in AssetFetches :
           Leaves("_symbol_to_contract", <<symbol, chain>>,
                  symbol_to_contract(assets_list, symbol, chain, fetch))
    /\ pc' = "resolved"

GetPrice ==
    /\ pc = "client"
    /\ \E symbol \in SymbolInputs, contract \in ContractInputs, against \in AgainstInputs,
          chain \in {None, PyStr("bsc"), PyInt(1), PyInt(999999)},
          validate_params \in BOOLEAN, fetch \in AssetFetches, http \in PriceAnswers :
           Effect("get_price", <<symbol, contract, chain, against, validate_params>>,
                  get_price(assets_list, symbol, contract, chain, against, validate_params,
                            fetch, http))

NextValidate ==
    \/ FillAssets
    \/ ValidateChain
    \/ ValidateChainAgain
    \/ ValidateFromTo
    \/ ValidateLimit
    \/ ValidatePage
    \/ ValidateSort
    \/ ValidateCandleParams
    \/ SymbolToContract
    \/ GetPrice

SpecValidate == InitValidate /\ [][NextValidate]_vars

(***************************************************************************)
(* Spec: one _handle_candle_response call of a constructed client          *)
(***************************************************************************)
Init ==
    /\ pc = "idle"
    /\ split_request \in BOOLEAN
    /\ ChunkerIdle
    /\ UnmarshalIdle
    /\ ValidateIdle

\* the call fails with exception e before any request
FailCall(e) ==
    /\ pc' = "failed"
    /\ error' = e
    /\ UNCHANGED <<step, original_to, i, result, requests, responses, warned, returned>>

\* lines 139-157: from the call to the first test of the loop
HandleCandleResponse ==
    /\ pc = "idle"
    /\ \E ep \in CandleEndpoints, res \in ResolutionInputs :
        \E from \in FromInputs(Unit(ep.url, res)), to \in ToInputs(ep.url, res),
           clock \in NowInputs(ep.url, res) :
          LET resolution == upper(res)
              st == ResolveStep(ep.url, resolution)
              from1 == IF from = None THEN DATA_EPOCH ELSE from.v
              to1 == IF to = None THEN clock
                     ELSE IF to.v > clock THEN clock ELSE to.v
          IN /\ endpoint' = ep.url
             /\ asked' = [from |-> from, to |-> to]
             /\ response_type' = ep.response_type
             /\ now' = clock
             /\ IF IsRaise(st)
                THEN /\ params' = [resolution |-> resolution, from |-> from, to |-> to]
                     /\ FailCall(st.v)
                ELSE IF ~split_request /\ (from = None \/ to = None)
                THEN /\ params' = [resolution |-> resolution, from |-> from, to |-> to]
                     /\ FailCall("TypeError")
                ELSE IF ~split_request /\ IntervalTooLong(from.v, to.v, resolution, st.v)
                THEN /\ params' = [resolution |-> resolution, from |-> from, to |-> to]
                     /\ FailCall("IntervalTooLong")
                ELSE /\ params' = [resolution |-> resolution,
                                   from |-> PyInt(from1), to |-> PyInt(to1)]
                     /\ step' = st.v
                     /\ original_to' = to1
                     /\ i' = from1
                     /\ UNCHANGED <<result, requests, responses, warned, error>>
                     /\ IF from1 < to1
                        THEN pc' = "loop" /\ UNCHANGED returned
                        ELSE pc' = "done" /\ returned' = result
    /\ UNCHANGED <<split_request, uvars, vvars>>

\* LoopTurn swallowing the exception of a sub-request and returning what was
\* accumulated so far
LoopTurn_partial(r, acc) ==
    /\ responses' = Append(responses, r)
    /\ error' = error
    /\ IF IsRaise(acc)
       THEN pc' = "done" /\ returned' = result /\ UNCHANGED <<i, result>>
       ELSE /\ result' = acc
            /\ IF i + step < original_to
               THEN pc' = "loop" /\ i' = i + step /\ UNCHANGED returned
               ELSE pc' = "done" /\ i' = i /\ returned' = acc

\* lines 158-161 after _handle_response returned or raised r: result += r, then
\* the next turn of the loop, the return, or the exception
LoopTurn(r, acc) ==
    /\ responses' = Append(responses, r)
    /\ IF IsRaise(acc)
       THEN /\ pc' = "failed"
            /\ error' = acc.v
            /\ UNCHANGED <<i, result, returned>>
       ELSE /\ result' = acc
            /\ error' = error
            /\ IF i + step < original_to
               THEN pc' = "loop" /\ i' = i + step /\ UNCHANGED returned
               ELSE pc' = "done" /\ i' = i /\ returned' = acc

Accumulate(r) == LoopTurn(r, IF IsRaise(r) THEN r ELSE ListIAdd(result, r))

\* lines 158-161: one turn of the loop, the _handle_response call included,
\* and the return when it was the last
HandleResponse ==
    /\ pc = "loop"
    /\ \E http \in HttpOutcomes(response_type) :
          /\ params' = [params EXCEPT !.from = PyInt(i),
                                      !.to = PyInt(SubWindowTo(i, step, original_to))]
          /\ requests' = Append(requests, <<i, SubWindowTo(i, step, original_to)>>)
          /\ warned' = IF http.kind = "ok" /\ IsEmptyData(http.data)
                       THEN warned + 1 ELSE warned
          /\ Accumulate(handle_response(response_type, http))
    /\ UNCHANGED <<split_request, endpoint, response_type, asked, now, step, original_to,
                   uvars, vvars>>

Next == HandleCandleResponse \/ HandleResponse

Spec == Init /\ [][Next]_vars

(***************************************************************************)
(* Properties of the chunker, checked under Spec                           *)
(***************************************************************************)
RECURSIVE ConcatFrom(_, _)

Called == pc \in {"loop", "done", "failed"}
IntRange == asked.from.t = "int" /\ asked.to.t = "int"
StepResolved == ~IsRaise(ResolveStep(endpoint, params.resolution))
MaxSpanSeconds == ResolveStep(endpoint, params.resolution).v
Span == asked.to.v - asked.from.v
NotInFuture == asked.to.v <= now
LastResponse == responses[Len(responses)]

\* the elements a sub-request result adds: those of a list, none of ""
Elements(r) == IF r.t = "list" THEN r.v ELSE <<>>
ConcatFrom(rs, k) == IF k > Len(rs) THEN <<>> ELSE Elements(rs[k]) \o ConcatFrom(rs, k + 1)

\* C1: for a resolution with a configured span and integers from < to, to not
\* in the future, the sub-windows requested so far start at from, follow each
\* other without gap or overlap, are never empty nor wider than the step nor
\* reach past to, and once the call has returned the last one ends at to.
C1_Tiling ==
    (Called /\ StepResolved /\ IntRange /\ Span > 0 /\ NotInFuture) =>
        /\ \A k \in 1..Len(requests) :
              /\ requests[k][1] < requests[k][2]
              /\ requests[k][2] - requests[k][1] <= step
              /\ requests[k][2] <= asked.to.v
        /\ requests # <<>> => requests[1][1] = asked.from.v
        /\ \A k \in 1..(Len(requests) - 1) : requests[k + 1][1] = requests[k][2]
        /\ pc = "done" => (requests # <<>> /\ requests[Len(requests)][2] = asked.to.v)

C1_Witness ==
    /\ pc = "done" /\ IntRange /\ Span > 0 /\ NotInFuture
    /\ Len(requests) = 3
    /\ requests[3][2] - requests[3][1] < step

\* C2: with split_request off, a request whose span exceeds maxSpanSeconds or
\* CANDLE_LIMIT candles fails with the too-long error before any sub-request.
C2_RangeTooLarge ==
    (pc \in {"done", "failed"} /\ ~split_request /\ StepResolved /\ IntRange
        /\ (Span > MaxSpanSeconds
            \/ Span > CANDLE_LIMIT * candle_seconds[params.resolution])) =>
        (pc = "failed" /\ error = "IntervalTooLong" /\ requests = <<>>)

\* C3: with split_request off and 0 < to - from <= maxSpanSeconds (to not in the
\* future, as in C1 and C4), the call issues exactly one sub-request, for
\* [from, to], and returns what that sub-request returned.
C3_SingleRequest ==
    (pc \in {"done", "failed"} /\ ~split_request /\ StepResolved /\ IntRange
        /\ Span > 0 /\ Span <= MaxSpanSeconds /\ NotInFuture) =>
        /\ requests = << <<asked.from.v, asked.to.v>> >>
        /\ ~IsRaise(responses[1]) =>
              (pc = "done" /\ returned = PyList(Elements(responses[1])))

\* C4: H1 on an endpoint of the standard table, a span of 20 days, to not in the
\* future: exactly the two sub-requests [from, from+1209600] and
\* [from+1209600, to], in that order.
C4_Expected ==
    << <<asked.from.v, asked.from.v + 14 * 24*60*60>>,
       <<asked.from.v + 14 * 24*60*60, asked.to.v>> >>

C4_H1TwentyDays ==
    (Called /\ params.resolution = "H1" /\ IntRange /\ Span = TwentyDays /\ NotInFuture
        /\ ~Contains(endpoint, <<"active_addresses">>) /\ ~Contains(endpoint, <<"moves">>)) =>
        /\ Len(requests) <= 2
        /\ requests = SubSeq(C4_Expected, 1, Len(requests))
        /\ pc = "done" => requests = C4_Expected

C4_Witness ==
    /\ pc = "done" /\ params.resolution = "H1" /\ IntRange /\ Span = TwentyDays
    /\ NotInFuture /\ Contains(endpoint, <<"candles">>)
    /\ Len(requests) = 2

\* C5: every sub-request has been answered before the next is issued, the
\* sub-requests are issued in ascending order of window start, and the value
\* returned is the concatenation of the sub-request results in that order.
C5_Concatenation ==
    /\ Len(responses) = Len(requests)
    /\ \A k \in 1..(Len(requests) - 1) : requests[k][1] < requests[k + 1][1]
    /\ pc = "done" => returned = PyList(ConcatFrom(responses, 1))

C5_Witness ==
    /\ pc = "done" /\ Len(requests) = 3
    /\ Len(Elements(responses[1])) = 1
    /\ Len(Elements(responses[2])) = 2
    /\ Len(returned.v) = 3

\* C6: when the k-th sub-request raises, the call ends with that same
\* exception, returns nothing (the results of sub-requests 1..k-1 included),
\* has issued the failed sub-request once and issues no further one.
C6_FailureAborts ==
    (responses # <<>> /\ IsRaise(LastResponse)) =>
        /\ pc = "failed"
        /\ error = LastResponse.v
        /\ returned = NoValue
        /\ Len(requests) = Len(responses)
        /\ \A k \in 1..(Len(responses) - 1) : ~IsRaise(responses[k])
        /\ \A j, k \in 1..Len(requests) : j # k => requests[j] # requests[k]
        /\ ~ENABLED HandleResponse

C6_Witness ==
    /\ pc = "failed" /\ Len(responses) = 2 /\ IsRaise(LastResponse)
    /\ error = "SystemExit"
    /\ result.v # <<>>
    /\ returned = NoValue

\* C7: a sub-request whose decoded payload is "" or null is no error: the call
\* does not fail on it, and returns a collection.
C7_EmptyPayloadNoError ==
    (responses # <<>> /\ IsEmptyData(LastResponse)) =>
        /\ pc # "failed"
        /\ pc = "done" => returned.t = "list"

Strict == Contains(endpoint, <<"active_addresses">>) \/ Contains(endpoint, <<"moves">>)
Looping == pc \in {"loop", "done"} \/ requests # <<>>

\* C22: the step of a call that went on to the loop is the smaller of the
\* endpoint's table entry for the resolution (the strict table for endpoints
\* tagged active_addresses or moves, the relaxed one otherwise) and
\* candle_seconds[resolution] * CANDLE_LIMIT.
C22_StepIsMin ==
    Looping =>
        /\ Strict =>
              /\ step <= strict_candle_limits[params.resolution]
              /\ step <= candle_seconds[params.resolution] * 5000
              /\ step \in {strict_candle_limits[params.resolution],
                            candle_seconds[params.resolution] * 5000}
        /\ ~Strict =>
              /\ step <= candle_limits[params.resolution]
              /\ step <= candle_seconds[params.resolution] * 5000
              /\ step \in {candle_limits[params.resolution],
                            candle_seconds[params.resolution] * 5000}

C22_Witness ==
    /\ pc = "done" /\ Strict /\ params.resolution = "M5"
    /\ step = 86400
    /\ Len(requests) = 2

\* C25: every sub-window issued spans at most CANDLE_LIMIT (5000) candles of
\* the resolution, for every resolution of the span tables and both tables.
C25_AtMostCandleLimit ==
    \A k \in 1..Len(requests) :
        requests[k][2] - requests[k][1] <= 5000 * candle_seconds[params.resolution]

\* M1 on the relaxed table: 7 days are 10080 candles, the sub-window has 5000
C25_Witness ==
    /\ pc = "done" /\ ~Strict /\ params.resolution = "M1"
    /\ requests # <<>>
    /\ requests[1][2] - requests[1][1] = 5000 * 60
    /\ candle_limits["M1"] = 10080 * 60

\* C26: a call with a resolution that _validate_resolution accepts resolves
\* its step: it does not end with the KeyError of a missing table entry.
C26_ValidatedResolutionHasStep ==
    (Called /\ validate_resolution(params.resolution) = None) =>
        /\ StepResolved
        /\ ~(pc = "failed" /\ error = "KeyError")

\* from' and to' of the call: from or the data epoch, to clipped to the
\* current time or the current time
FromOrEpoch == IF asked.from = None THEN DATA_EPOCH ELSE asked.from.v
ToOrNow == IF asked.to = None \/ asked.to.v > now THEN now ELSE asked.to.v
CeilDiv(a, b) == (a + b - 1) \div b
WindowsNeeded ==
    IF ToOrNow <= FromOrEpoch THEN 0 ELSE CeilDiv(ToOrNow - FromOrEpoch, MaxSpanSeconds)

\* C27: a call that returned has issued exactly ceil(max(0, to' - from') / step)
\* sub-requests; a call with from' >= to' issues none and returns the empty
\* list without error.
C27_RequestCount ==
    /\ pc = "done" => Len(requests) = WindowsNeeded
    /\ (pc \in {"done", "failed"} /\ StepResolved /\ FromOrEpoch >= ToOrNow) =>
          (pc = "done" /\ requests = <<>> /\ returned = PyList(<<>>))

\* What holds of the code instead: the same of a client that splits requests;
\* with split_request off the test of lines 146-148 comes first and raises on
\* from - to > step, or on an unset from or to.
RequestCountWhenSplitting ==
    /\ pc = "done" => Len(requests) = WindowsNeeded
    /\ (pc \in {"done", "failed"} /\ StepResolved /\ FromOrEpoch >= ToOrNow
            /\ split_request) =>
          (pc = "done" /\ requests = <<>> /\ returned = PyList(<<>>))

RequestCount_Reached ==
    /\ pc = "done" /\ Len(requests) = 2 /\ WindowsNeeded = 2
    /\ asked.to # None /\ asked.to.v > now

(***************************************************************************)
(* Properties of the unmarshaller, checked under SpecUnmarshal             *)
(***************************************************************************)
Unmarshalled == pc = "unmarshalled"
AllDicts(items) == \A k \in 1..Len(items) : IsDict(items[k])

\* unmarshal_json("T", obj): the hydration of one object as entity T
Hydration(T, obj) == unmarshal_json(<<T>>, obj)

\* every known primitive key of the wire object obj holds its coerced value
PrimitivesCoerced(T, obj, entity) ==
    \A j \in 1..Len(obj.v) :
        (HasKey(Descriptor(T).api_name_to_python, obj.v[j][1])
            /\ Lookup(Descriptor(T).attribute_is_primitive, obj.v[j][1])) =>
            /\ HasKey(entity.attrs, obj.v[j][1])
            /\ Lookup(entity.attrs, obj.v[j][1])
                 = TypeCall(Lookup(Descriptor(T).attributes_to_types, obj.v[j][1]),
                            obj.v[j][2])

\* C8: unmarshal_json("List[T]", array), T registered and array made of JSON
\* objects, returns a sequence of the length of array whose i-th element is
\* the i-th object hydrated as entity T (the empty sequence for the empty
\* array); it raises exactly when the hydration of some element raises.
C8_ListHydration ==
    (Unmarshalled /\ Len(u_type) = 4 /\ u_type = ListTag(u_type[3])
        /\ HasKey(name_to_class, u_type[3]) /\ IsList(u_json) /\ AllDicts(u_json.v)) =>
        IF \A k \in 1..Len(u_json.v) : ~IsRaise(Hydration(u_type[3], u_json.v[k]))
        THEN /\ u_result.t = "list"
             /\ Len(u_result.v) = Len(u_json.v)
             /\ \A k \in 1..Len(u_json.v) :
                   /\ u_result.v[k] = Hydration(u_type[3], u_json.v[k])
                   /\ u_result.v[k].t = "Definition"
                   /\ u_result.v[k].cls = u_type[3]
                   /\ PrimitivesCoerced(u_type[3], u_json.v[k], u_result.v[k])
        ELSE IsRaise(u_result)

C8_Witness ==
    /\ Unmarshalled /\ u_type = ListTag("Tag") /\ u_json = PyList(<<TagB, TagA>>)
    /\ u_result.t = "list" /\ Len(u_result.v) = 2
    /\ Lookup(u_result.v[1].attrs, "id") = PyInt(7)

\* C9: unmarshal_json("Dict[str, T]", obj) for a JSON object obj returns a
\* mapping with exactly the keys of obj whose value at every key k is
\* unmarshal_json("T", obj[k]); it raises exactly when one of those raises.
C9_DictValues ==
    (Unmarshalled /\ Len(u_type) = 6 /\ u_type = DictTag(u_type[5]) /\ IsDict(u_json)) =>
        IF \A j \in 1..Len(u_json.v) : ~IsRaise(unmarshal_json(<<u_type[5]>>, u_json.v[j][2]))
        THEN /\ u_result.t = "dict"
             /\ Len(u_result.v) = Len(u_json.v)
             /\ Keys(u_result.v) = Keys(u_json.v)
             /\ \A j \in 1..Len(u_json.v) :
                   Lookup(u_result.v, u_json.v[j][1])
                     = unmarshal_json(<<u_type[5]>>, u_json.v[j][2])
        ELSE IsRaise(u_result)

C9_Witness ==
    /\ Unmarshalled /\ u_type = DictTag("Tag")
    /\ u_json = PyDict(<< <<"a", TagA>>, <<"b", TagB>> >>)
    /\ u_result.t = "dict"
    /\ Lookup(u_result.v, "b") = Entity("Tag", << <<"tag", PyStr("2")>>, <<"id", PyInt(7)>> >>)

\* C10: when the response type names a single registered entity T and the
\* payload is a JSON array, the result is one entity T whose only attribute is
\* its first declared field, holding the array hydrated as U when the field is
\* declared List[U] and the raw array otherwise.
C10_FirstField == Descriptor(u_type[1]).api_name_to_python[1][2]
C10_FirstType == Lookup(Descriptor(u_type[1]).attributes_to_types, C10_FirstField)

C10_FirstFieldReceivesArray ==
    (Unmarshalled /\ IsRegistered(u_type) /\ IsList(u_json)) =>
        /\ u_result.t = "Definition"
        /\ u_result.cls = u_type[1]
        /\ Len(u_result.attrs) = 1
        /\ u_result.attrs[1][1] = C10_FirstField
        /\ u_result.attrs[1][2] =
              IF C10_FirstType.kind = "List"
              THEN unmarshal_json(ListTag(C10_FirstType.name), u_json)
              ELSE u_json

\* C11: when the response type names a single registered entity T and the
\* payload is a bare int or float, unmarshal_json returns that number unchanged.
C11_ScalarPassthrough ==
    (Unmarshalled /\ IsRegistered(u_type) /\ u_json.t \in {"int", "float"}) =>
        u_result = u_json

\* the wire keys of obj that T's field table holds, by position
KnownAt(T, obj) ==
    {j \in 1..Len(obj.v) : HasKey(Descriptor(T).api_name_to_python, obj.v[j][1])}
LocalName(T, key) == Lookup(Descriptor(T).api_name_to_python, key)
DeclaredType(T, key) == Lookup(Descriptor(T).attributes_to_types, LocalName(T, key))
IsPrimitive(T, key) == Lookup(Descriptor(T).attribute_is_primitive, LocalName(T, key))

\* the value a known field is to hold: the scalar coercion, the List[Element]
\* unmarshalling or the nested hydration of the wire value
FieldValue(T, key, value) ==
    IF IsPrimitive(T, key) THEN TypeCall(DeclaredType(T, key), value)
    ELSE IF DeclaredType(T, key).kind = "List"
    THEN unmarshal_json(ListTag(DeclaredType(T, key).name), value)
    ELSE unmarshal_json(<<DeclaredType(T, key).name>>, value)

\* obj matches T's field table: a list field holds an array, an entity field
\* an object
WellFormed(T, obj) ==
    \A j \in KnownAt(T, obj) :
        \/ IsPrimitive(T, obj.v[j][1])
        \/ DeclaredType(T, obj.v[j][1]).kind = "List" /\ IsList(obj.v[j][2])
        \/ DeclaredType(T, obj.v[j][1]).kind = "class" /\ IsDict(obj.v[j][2])

\* C12: hydrating a well-formed JSON object as entity T gives an entity T
\* whose to_dict holds, for every known wire key, under the local name of the
\* key, the coercion / list unmarshalling / nested hydration of its value;
\* distinct known keys have distinct local names; the call raises exactly
\* when one of those conversions raises.
C12_HydrationRoundTrip ==
    (Unmarshalled /\ IsRegistered(u_type) /\ IsDict(u_json) /\ WellFormed(u_type[1], u_json)) =>
        IF \A j \in KnownAt(u_type[1], u_json) :
              ~IsRaise(FieldValue(u_type[1], u_json.v[j][1], u_json.v[j][2]))
        THEN /\ u_result.t = "Definition"
             /\ u_result.cls = u_type[1]
             /\ \A j \in KnownAt(u_type[1], u_json) :
                   /\ HasKey(to_dict(u_result), LocalName(u_type[1], u_json.v[j][1]))
                   /\ Lookup(to_dict(u_result), LocalName(u_type[1], u_json.v[j][1]))
                        = FieldValue(u_type[1], u_json.v[j][1], u_json.v[j][2])
             /\ \A j, k \in KnownAt(u_type[1], u_json) :
                   j # k => LocalName(u_type[1], u_json.v[j][1])
                              # LocalName(u_type[1], u_json.v[k][1])
        ELSE IsRaise(u_result)

C12_Witness ==
    /\ Unmarshalled /\ u_type = <<"Balance">> /\ u_json = BalanceObj
    /\ u_result.t = "Definition"
    /\ Lookup(to_dict(u_result), "wallet")
         = Entity("WhitelistedAddress",
                  << <<"address", PyStr("0xabc")>>, <<"id", PyInt(1)>> >>)
    /\ Lookup(to_dict(u_result), "walletID") = PyInt(7)

\* the attribute name of a wire key the field table does not hold
UnknownAt(T, obj) == (1..Len(obj.v)) \ KnownAt(T, obj)
MarkedName(key) == IF iskeyword(key) THEN key \o "_" ELSE key
StoredAt(T, obj, j) ==
    IF j \in KnownAt(T, obj) THEN LocalName(T, obj.v[j][1]) ELSE MarkedName(obj.v[j][1])

\* C13: after a hydration that returned, every wire key absent from
\* the field table is an attribute of the entity, under its own name or its
\* name with a trailing "_" when it is a reserved word, holding the raw value.
C13_UnknownKeysKept ==
    (Unmarshalled /\ IsRegistered(u_type) /\ IsDict(u_json) /\ ~IsRaise(u_result)) =>
        \A j \in UnknownAt(u_type[1], u_json) :
            /\ HasKey(to_dict(u_result), MarkedName(u_json.v[j][1]))
            /\ Lookup(to_dict(u_result), MarkedName(u_json.v[j][1])) = u_json.v[j][2]

\* What holds of the code instead: every unknown wire key is stored under that
\* name, and holds its raw value unless a later key of the object is stored
\* under the same name ("from" and "from_"), which then wins.
UnknownKeysKeptUnlessClash ==
    (Unmarshalled /\ IsRegistered(u_type) /\ IsDict(u_json) /\ ~IsRaise(u_result)) =>
        \A j \in UnknownAt(u_type[1], u_json) :
            /\ HasKey(to_dict(u_result), MarkedName(u_json.v[j][1]))
            /\ (\A k \in (j + 1)..Len(u_json.v) :
                    StoredAt(u_type[1], u_json, k) # MarkedName(u_json.v[j][1])) =>
                  Lookup(to_dict(u_result), MarkedName(u_json.v[j][1])) = u_json.v[j][2]

UnknownKeysKept_Reached ==
    /\ Unmarshalled /\ u_type = <<"Tag">> /\ u_json = TagExtra
    /\ to_dict(u_result) = << <<"id", PyInt(2)>>, <<"from_", PyInt(56)>>,
                              <<"note", PyStr("n")>> >>

\* the type the call asks for is known to neither registry: the entity name
\* itself, or the element type of List[...]
UnknownTypeAsked ==
    \/ Len(u_type) = 1 /\ u_type[1] \notin scalar_name_to_class
                       /\ ~HasKey(name_to_class, u_type[1])
    \/ Len(u_type) = 4 /\ u_type = ListTag(u_type[3])
                       /\ u_type[3] \notin scalar_name_to_class
                       /\ ~HasKey(name_to_class, u_type[3])

\* C23: unmarshal_json fails with the unknown-type error (KeyError), returning
\* no object, whenever the entity name or the List element type asked for is
\* not in the registry, whatever the payload.
C23_UnknownTypeFails ==
    (Unmarshalled /\ UnknownTypeAsked) => u_result = Raise("KeyError")

\* What holds of the code instead: the same unless the payload is the empty
\* array, whose loop never looks the type up.
UnknownTypeFailsUnlessEmpty ==
    (Unmarshalled /\ UnknownTypeAsked /\ u_json # PyList(<<>>)) =>
        u_result = Raise("KeyError")

UnknownTypeFails_Reached ==
    /\ Unmarshalled /\ u_type = ListTag("Unknown") /\ u_json = PyList(<<TagA>>)
    /\ u_result = Raise("KeyError")

Hydrated == pc = "hydrated"
HasTypeEntry(T, key) == HasKey(Descriptor(T).attributes_to_types, LocalName(T, key))

UntypedNonPrimitiveRaw ==
    (Hydrated /\ IsDict(u_json) /\ ~IsRaise(u_result)) =>
        \A j \in KnownAt(u_type[1], u_json) :
            (~IsPrimitive(u_type[1], u_json.v[j][1])
                /\ ~HasTypeEntry(u_type[1], u_json.v[j][1])) =>
                Lookup(to_dict(u_result), LocalName(u_type[1], u_json.v[j][1]))
                  = u_json.v[j][2]

UntypedNonPrimitiveRaw_Reached ==
    /\ Hydrated /\ u_type = <<"LooseRecord">> /\ u_json = LooseBlob
    /\ to_dict(u_result) = << <<"id", PyInt(1)>>, <<"blob", PyStr("x")>> >>

\* C29: after a hydration that returned, a non-primitive field declared as a
\* single nested descriptor holds the hydrated nested entity when the wire
\* value is an object and the wire value itself otherwise; a string is not
\* replaced by None.
C29_NestedValueNotLost ==
    (Unmarshalled /\ IsRegistered(u_type) /\ IsDict(u_json) /\ ~IsRaise(u_result)) =>
        \A j \in KnownAt(u_type[1], u_json) :
            (~IsPrimitive(u_type[1], u_json.v[j][1])
                /\ HasTypeEntry(u_type[1], u_json.v[j][1])
                /\ DeclaredType(u_type[1], u_json.v[j][1]).kind = "class") =>
                Lookup(to_dict(u_result), LocalName(u_type[1], u_json.v[j][1]))
                  = IF IsDict(u_json.v[j][2])
                    THEN Hydration(DeclaredType(u_type[1], u_json.v[j][1]).name,
                                   u_json.v[j][2])
                    ELSE u_json.v[j][2]

\* What holds of the code instead: an object is hydrated, a number (a bool
\* included) or None is kept, and any other scalar, a string included, is
\* replaced by None.
NestedValueKeptUnlessString ==
    (Unmarshalled /\ IsRegistered(u_type) /\ IsDict(u_json) /\ ~IsRaise(u_result)) =>
        \A j \in KnownAt(u_type[1], u_json) :
            (~IsPrimitive(u_type[1], u_json.v[j][1])
                /\ HasTypeEntry(u_type[1], u_json.v[j][1])
                /\ DeclaredType(u_type[1], u_json.v[j][1]).kind = "class") =>
                Lookup(to_dict(u_result), LocalName(u_type[1], u_json.v[j][1]))
                  = IF IsDict(u_json.v[j][2])
                    THEN Hydration(DeclaredType(u_type[1], u_json.v[j][1]).name,
                                   u_json.v[j][2])
                    ELSE IF IsNumber(u_json.v[j][2]) THEN u_json.v[j][2]
                    ELSE None

(***************************************************************************)
(* Properties of the validators, checked under SpecValidate                *)
(***************************************************************************)
CallOf(op) == pc \in {"returned", "resolved"} /\ v_call.op = op
Arg(k) == v_call.args[k]
IsInt(x) == x.t = "int"

\* C14: every member of the allow-list, at position k counted from 0, maps to
\* the member at position k mod 5, a numeric ID, so the four aliases of a chain
\* map to one ID; an int, a string or None outside the list fails with the
\* chain error.
C14_ChainNormalized ==
    (CallOf("_validate_chain") /\ Arg(1).t \in {"int", "str", "NoneType"}) =>
        /\ \A band \in 0..3, pos \in 1..5 :
              Arg(1) = CHAIN_SUPPORTED_VALUES[5 * band + pos] =>
                  /\ v_result = CHAIN_SUPPORTED_VALUES[pos]
                  /\ IsInt(v_result)
        /\ (\A k \in 1..20 : Arg(1) # CHAIN_SUPPORTED_VALUES[k]) => v_result = ChainError

C14_Witness ==
    /\ CallOf("_validate_chain") /\ Arg(1) = PyStr("BSC")
    /\ v_result = PyInt(56)

\* C15: _validate_from__to fails with the too-early error for every integer
\* to below DATA_EPOCH, 0 and the negatives included, whatever from_ is.
C15_TooEarly ==
    (CallOf("_validate_from__to") /\ Arg(1).t \in {"NoneType", "int"}
        /\ IsInt(Arg(2)) /\ Arg(2).v < DATA_EPOCH) =>
        v_result = TooEarlyError

\* C16 as stated: for integers from_ and to, the ordering error whenever
\* to <= from_, and (from_, to) unchanged whenever from_ < to.
C16_Ordering ==
    (CallOf("_validate_from__to") /\ IsInt(Arg(1)) /\ IsInt(Arg(2))) =>
        v_result = IF Arg(2).v <= Arg(1).v THEN OrderError ELSE PyTuple(<<Arg(1), Arg(2)>>)

\* C16: the same for a to that does not precede DATA_EPOCH; an earlier to is
\* answered by the too-early test, which comes first.
C16_OrderingFromEpoch ==
    (CallOf("_validate_from__to") /\ IsInt(Arg(1)) /\ IsInt(Arg(2))
        /\ Arg(2).v >= DATA_EPOCH) =>
        v_result = IF Arg(2).v <= Arg(1).v THEN OrderError ELSE PyTuple(<<Arg(1), Arg(2)>>)

C16_Witness ==
    /\ CallOf("_validate_from__to")
    /\ Arg(1) = PyInt(DATA_EPOCH) /\ Arg(2) = PyInt(DATA_EPOCH)
    /\ v_result = OrderError

\* C17: an integer limit is accepted exactly when 1 <= limit <= 500; every
\* other integer, 0 and the negatives included, fails with the limit error.
C17_LimitRange ==
    (CallOf("_validate_limit") /\ IsInt(Arg(1))) =>
        v_result = IF 1 <= Arg(1).v /\ Arg(1).v <= 500 THEN None ELSE LimitError

\* C18: an integer page is accepted exactly when 1 <= page <= PAGE_LIMITS[1]
\* (922337203685477581); every other integer, 0 included, fails with a page
\* error.
C18_PageRange ==
    (CallOf("_validate_page") /\ Arg(1) # None) =>
        IF ~BigLess(Arg(1).v, <<0, 1>>) /\ ~BigLess(<<922337203, 685477581>>, Arg(1).v)
        THEN v_result = None
        ELSE v_result \in {PageLowError, PageHighError}

\* the two forms of a sort: <col>.<asc|desc> and <+|-><col>, read without
\* regard to case, col in both column lists
SortColumnOk(col, columns) == col \in SORT_SUPPORTED_COLUMNS /\ col \in columns
SortFormOk(sort, columns) ==
    \/ /\ Len(sort) = 3 /\ sort[2] = "." /\ sort[3] \in {"asc", "desc"}
       /\ SortColumnOk(sort[1], columns)
    \/ /\ Len(sort) = 2 /\ sort[1] \in {"+", "-"}
       /\ SortColumnOk(sort[2], columns)

\* C19: a non-empty sort string is accepted exactly when it has one of the two
\* forms; every other one (a mixed form such as <col>.+ included) raises.
C19_SortForm ==
    (CallOf("_validate_sort") /\ Arg(1) # None /\ Arg(1).v # <<>>) =>
        IF SortFormOk(lower(Arg(1).v), Arg(2)) THEN v_result = None ELSE IsRaise(v_result)

\* the errors of the parameter validation rules
ValidationErrors ==
    {ChainError, TooEarlyError, OrderError, LimitError, PageLowError, PageHighError,
     SortError, UnpackError, AgainstError, ResolutionError, ContractError, NoSymbolError}

\* C20: a call with validate_params on that ended with the error of a
\* validation rule has issued no HTTP request, neither for data nor for the
\* asset table.
C20_ValidationBeforeHttp ==
    (/\ \/ CallOf("_validate_symbol_contract_against_from__to_resolution_chain")
        \/ (CallOf("get_price") /\ Arg(5))
     /\ v_result \in ValidationErrors) =>
        http_log = <<>>

\* the rows of the asset table the last call looked the symbol up in
TableRows == assets_list.v
Matches == RowsWhere(TableRows, "symbol", Arg(1))
ChainsOf(ks) == {TableRows[k].chain : k \in ks}
\* the matches left: those on the given chain when a chain is given and the
\* symbol is listed on several chains, all of them otherwise
Remaining ==
    IF Arg(2) # None /\ Cardinality(ChainsOf(Matches)) > 1
    THEN {k \in Matches : TableRows[k].chain = Arg(2)}
    ELSE Matches

\* C21: _symbol_to_contract returns a contract only when exactly one asset of
\* the table is left for the symbol, and it is that asset's contract; a symbol
\* absent from the table fails with the unknown-symbol error, a symbol with
\* several assets left with one of the two ambiguous-symbol errors.
C21_SymbolLookup ==
    (CallOf("_symbol_to_contract") /\ assets_list # None) =>
        /\ ~IsRaise(v_result) =>
              /\ Cardinality(Remaining) = 1
              /\ \A k \in Remaining : v_result = TableRows[k].contract
        /\ Matches = {} => v_result = UnknownSymbolError
        /\ Cardinality(Remaining) > 1 =>
              v_result \in {MultipleContractsError, ChainNeededError}

\* What holds of the code instead: the same on a table that has rows; the
\* table made of an empty answer has no "symbol" column to look in.
SymbolLookupOnRows ==
    (CallOf("_symbol_to_contract") /\ assets_list # None /\ TableRows # <<>>) =>
        /\ ~IsRaise(v_result) =>
              /\ Cardinality(Remaining) = 1
              /\ \A k \in Remaining : v_result = TableRows[k].contract
        /\ Matches = {} => v_result = UnknownSymbolError
        /\ Cardinality(Remaining) > 1 =>
              v_result \in {MultipleContractsError, ChainNeededError}

\* one asset left for the symbol on the chain, and yet no contract
OneLeftYetAmbiguous ==
    /\ CallOf("_symbol_to_contract") /\ assets_list = PyFrame(AssetRows)
    /\ Arg(1) = PyStr("USDT") /\ Arg(2) = PyInt(56)
    /\ Cardinality(Remaining) = 1
    /\ v_result = MultipleContractsError

Allowed(x) == \E k \in 1..Len(CHAIN_SUPPORTED_VALUES) : x = CHAIN_SUPPORTED_VALUES[k]

\* C30: what _validate_chain returns for an allowed input is itself allowed,
\* and normalizing it a second time, as the combined validator does, returns
\* it unchanged.
C30_ChainIdempotent ==
    /\ (CallOf("_validate_chain") /\ Allowed(Arg(1))) => Allowed(v_result)
    /\ pc = "renormalized" => (Allowed(Arg(1)) /\ v_result = Arg(1))

C30_Witness ==
    /\ pc = "renormalized"
    /\ Arg(1) = PyInt(137) /\ v_result = PyInt(137)

====
